---------------------------- MODULE Spec2Model ----------------------------
(***************************************************************************)
(* Model of restson's RestClient (src/src/lib.rs): the client's state      *)
(* (baseurl, auth, headers), the request operations built from             *)
(* make_request / make_uri / run_request, and the exchange with the HTTP   *)
(* transport that run_request drives to completion.                        *)
(*                                                                         *)
(* Strings are sequences of one-character strings, so that formatting,     *)
(* percent-encoding and URI parsing are computed and not assumed.  An      *)
(* Option is a sequence of length at most one: <<>> is None, <<x>> is      *)
(* Some(x).                                                                *)
(***************************************************************************)
EXTENDS Integers, Sequences, FiniteSets, TLC

VARIABLES
    baseurl,    \* RestClient.baseurl: the parsed base URL
    auth,       \* RestClient.auth: Option<Authorization<Basic>>
    headers,    \* RestClient.headers: header name -> raw value
    pc,         \* position of the caller: "idle", "inflight", "returned"
    call,       \* the operation being executed and its arguments
    wire,       \* Option: the request handed to the transport in this call
    exch,       \* the exchange: "none", "sent", "head", "complete", "failed"
    status,     \* Option: the status of the response head received
    chunks,     \* the body chunks received so far, in arrival order
    ran,        \* Option: what run_request returned
    result,     \* Option: what the operation returned to the caller
    lastAuth,   \* history: the credentials of the latest set_auth call
    lastSet,    \* history: header name -> latest value set since the last clear
    uin,        \* inputs of a stand-alone make_uri evaluation
    uout        \* Option: its result

vars == <<baseurl, auth, headers, pc, call, wire, exch, status, chunks, ran,
          result, lastAuth, lastSet, uin, uout>>

clientVars == <<baseurl, auth, headers>>
callVars == <<pc, call, wire, exch, status, chunks, ran, result>>
histVars == <<lastAuth, lastSet>>
uriVars == <<uin, uout>>

(***************************************************************************)
(* Bounds of the model.                                                    *)
(***************************************************************************)
MaxChunks == 2      \* body chunks per response
MaxPathLen == 2     \* characters of a resolved path (stand-alone make_uri)
MaxQuery == 2       \* pairs of a query list (stand-alone make_uri)

(***************************************************************************)
(* Sequence helpers.                                                       *)
(***************************************************************************)
RECURSIVE Flatten(_)
Flatten(ss) == IF ss = <<>> THEN <<>> ELSE Head(ss) \o Flatten(Tail(ss))

\* The first index of character c in s at or after position from, 0 if none.
RECURSIVE FindFrom(_, _, _)
FindFrom(s, c, from) ==
    IF from > Len(s) THEN 0
    ELSE IF s[from] \in c THEN from
    ELSE FindFrom(s, c, from + 1)

\* The first index at which pattern p starts in s, 0 if none.
RECURSIVE FindSub(_, _, _)
FindSub(s, p, from) ==
    IF from + Len(p) - 1 > Len(s) THEN 0
    ELSE IF SubSeq(s, from, from + Len(p) - 1) = p THEN from
    ELSE FindSub(s, p, from + 1)

SeqsUpTo(S, n) == UNION {[1..k -> S] : k \in 0..n}

(***************************************************************************)
(* url::Url, as the calls of make_uri use it.  A Url is                    *)
(* [scheme, host, path, query]; scheme and host are single tokens (they    *)
(* hold no delimiter), path is a string, query an Option of a string.      *)
(***************************************************************************)

\* Percent-encoding of one path character by Url::set_path: the characters
\* of the path encode set (here the space) become %XX, the others stay.
path_encode_char(c) ==
    IF c = " " THEN <<"%", "2", "0">> ELSE <<c>>

RECURSIVE path_encode(_)
path_encode(s) ==
    IF s = <<>> THEN <<>> ELSE path_encode_char(Head(s)) \o path_encode(Tail(s))

\* Faulty variant: the path is appended to the path of the base URL.
set_path_concat(url, path) ==
    [url EXCEPT !.path = url.path \o path_encode(path)]

\* Url::set_path on a URL with a host: the old path is dropped, one leading
\* "/" of the argument is consumed, the new path always starts with "/",
\* and what follows the path (the query) is kept.
set_path(url, path) ==
    LET rest == IF path # <<>> /\ Head(path) = "/" THEN Tail(path) ELSE path
    IN  [url EXCEPT !.path = <<"/">> \o path_encode(rest)]

\* form_urlencoded::byte_serialize of one character: alphanumerics and
\* *-._ stay, the space becomes "+", everything else %XX.
byte_serialize_char(c) ==
    CASE c = " " -> <<"+">>
      [] c = "&" -> <<"%", "2", "6">>
      [] c = "=" -> <<"%", "3", "D">>
      [] c = "+" -> <<"%", "2", "B">>
      [] c = "%" -> <<"%", "2", "5">>
      [] OTHER   -> <<c>>

RECURSIVE byte_serialize(_)
byte_serialize(s) ==
    IF s = <<>> THEN <<>>
    ELSE byte_serialize_char(Head(s)) \o byte_serialize(Tail(s))

\* Faulty variant: the pair is put in front of the pairs already there.
append_pair_front(url, key, item) ==
    LET old == IF url.query = <<>> THEN <<>> ELSE url.query[1]
        sep == IF Len(old) > 0 THEN <<"&">> ELSE <<>>
    IN  [url EXCEPT !.query =
            <<byte_serialize(key) \o <<"=">> \o byte_serialize(item) \o sep \o old>>]

\* url.query_pairs_mut().append_pair(key, item): a query is started if the
\* URL has none, "&" separates the pair from a non-empty query before it.
append_pair(url, key, item) ==
    LET old == IF url.query = <<>> THEN <<>> ELSE url.query[1]
        sep == IF Len(old) > 0 THEN <<"&">> ELSE <<>>
    IN  [url EXCEPT !.query =
            <<old \o sep \o byte_serialize(key) \o <<"=">> \o byte_serialize(item)>>]

\* The loop of make_uri over the query parameters, in their order.
RECURSIVE append_pairs(_, _)
append_pairs(url, params) ==
    IF params = <<>> THEN url
    ELSE append_pairs(append_pair(url, Head(params).key, Head(params).item),
                      Tail(params))

\* Url::as_str: the serialization scheme://host/path?query.
as_str(url) ==
    <<url.scheme, ":", "/", "/">> \o url.host \o url.path
      \o (IF url.query = <<>> THEN <<>> ELSE <<"?">> \o url.query[1])

(***************************************************************************)
(* hyper::Uri, parsed from the serialization (absolute form).              *)
(***************************************************************************)
NoUri == [scheme |-> <<>>, authority |-> <<>>, path |-> <<>>, query |-> <<>>]

UrlError == [tag |-> "UrlError", uri |-> NoUri]

\* str::parse::<hyper::Uri>: the scheme ends at the first ":", the
\* authority runs from after "://" to the first "/", "?" or "#"; an empty
\* authority is an error; a missing path becomes "/"; the query follows
\* the first "?".
parse_uri(s) ==
    LET sep == FindSub(s, <<":", "/", "/">>, 1)
    IN  IF s = <<>> \/ Head(s) = "/" \/ sep = 0 THEN UrlError
        ELSE
        LET scheme_end == FindFrom(s, {":"}, 1)
            auth_start == sep + 3
            found == FindFrom(s, {"/", "?", "#"}, auth_start)
            auth_end == IF found = 0 THEN Len(s) + 1 ELSE found
            t == IF auth_end > Len(s) \/ s[auth_end] # "/"
                 THEN SubSeq(s, 1, auth_end - 1) \o <<"/">>
                        \o SubSeq(s, auth_end, Len(s))
                 ELSE s
            q == FindFrom(t, {"?"}, 1)
            path_end == IF q = 0 THEN Len(t) ELSE q - 1
        IN  IF auth_end = auth_start THEN UrlError
            ELSE [tag |-> "Ok",
                  uri |-> [scheme |-> SubSeq(t, 1, scheme_end - 1),
                           authority |-> SubSeq(t, auth_start, auth_end - 1),
                           path |-> SubSeq(t, auth_end, path_end),
                           query |-> IF q = 0 THEN <<>>
                                     ELSE <<SubSeq(t, q + 1, Len(t))>>]]

\* RestClient::make_uri: clone the base URL, set the path, append the query
\* pairs, parse the serialization as a hyper::Uri.
make_uri(base, path, params) ==
    LET url1 == set_path(base, path)
        url2 == IF params = <<>> THEN url1 ELSE append_pairs(url1, params[1])
    IN  parse_uri(as_str(url2))

(***************************************************************************)
(* Values returned to the caller: Result<_, Error>.                        *)
(***************************************************************************)
Ok(b) == [tag |-> "Ok", code |-> 0, body |-> b]
Err(e) == [tag |-> e, code |-> 0, body |-> <<>>]
HttpError(s, b) == [tag |-> "HttpError", code |-> s, body |-> b]

(***************************************************************************)
(* hyper::Headers: a map from header name to raw value.  Names are kept in *)
(* their canonical spelling (hyper compares them without case).            *)
(***************************************************************************)
NoHeaders == [n \in {} |-> <<>>]

\* Headers::set / Headers::set_raw: the value replaces any value of the name.
headers_set(h, name, value) ==
    [n \in DOMAIN h \cup {name} |-> IF n = name THEN value ELSE h[n]]

\* Headers::extend: every header of the argument is inserted, replacing
\* a header of the same name.
headers_extend(h, more) ==
    [n \in DOMAIN h \cup DOMAIN more |-> IF n \in DOMAIN more THEN more[n] ELSE h[n]]

\* The raw value of Authorization(Basic { username, password }).
basic_value(a) == <<"Basic", a.username, a.password>>

\* The decimal digits of a length, as ContentLength formats it.
RECURSIVE to_decimal(_)
to_decimal(n) ==
    LET digit == <<"0", "1", "2", "3", "4", "5", "6", "7", "8", "9">>
    IN  IF n < 10 THEN <<digit[n + 1]>>
        ELSE to_decimal(n \div 10) \o <<digit[(n % 10) + 1]>>

(***************************************************************************)
(* The caller's side: the RestPath implementation of the domain type and   *)
(* the JSON encoder.                                                       *)
(***************************************************************************)
Params == {"item", "bad"}
Data == {"num", "obj", "unserializable"}

\* RestPath::get_path of the domain type: a path, or an error of the
\* implementation's choice.
get_path(par) ==
    IF par = "item" THEN [tag |-> "Ok", val |-> <<"a">>]
    ELSE [tag |-> "HttpClientError", val |-> <<>>]

\* serde_json::to_string(data).map_err(|_| Error::ParseError)
to_string(data) ==
    CASE data = "num" -> [tag |-> "Ok", val |-> <<"1">>]
      [] data = "obj" -> [tag |-> "Ok", val |-> <<"{", "}">>]
      [] OTHER        -> [tag |-> "ParseError", val |-> <<>>]

(***************************************************************************)
(* The methods of RestClient.  A method taking &mut self is an operator    *)
(* from the client (self) to the client after the call and what the call   *)
(* produced.                                                               *)
(***************************************************************************)
Self == [baseurl |-> baseurl, auth |-> auth, headers |-> headers]

NoReq == [method |-> "", uri |-> NoUri, headers |-> NoHeaders, body |-> <<>>]

\* Faulty variant: the path is set on the client's own base URL.
make_request_inplace(self, method, params, query, body) ==
    LET p == get_path(params)
    IN  IF p.tag # "Ok" THEN [self |-> self, tag |-> p.tag, req |-> NoReq]
        ELSE
        LET u == make_uri(self.baseurl, p.val, query)
            moved == [self EXCEPT !.baseurl = set_path(self.baseurl, p.val)]
        IN  IF u.tag # "Ok" THEN [self |-> moved, tag |-> u.tag, req |-> NoReq]
            ELSE [self |-> moved, tag |-> "Ok",
                  req |-> [method |-> method, uri |-> u.uri,
                           headers |-> NoHeaders, body |-> body]]

\* Faulty variant: the content headers are left out.
make_request_bare(self, method, params, query, body) ==
    LET p == get_path(params)
    IN  IF p.tag # "Ok" THEN [self |-> self, tag |-> p.tag, req |-> NoReq]
        ELSE
        LET u == make_uri(self.baseurl, p.val, query)
        IN  IF u.tag # "Ok" THEN [self |-> self, tag |-> u.tag, req |-> NoReq]
            ELSE [self |-> self, tag |-> "Ok",
                  req |-> [method |-> method, uri |-> u.uri,
                           headers |-> NoHeaders, body |-> body]]

\* RestClient::make_request: resolve the path, build the URI, and with a
\* body set Content-Length, Content-Type and the body.
make_request(self, method, params, query, body) ==
    LET p == get_path(params)
    IN  IF p.tag # "Ok" THEN [self |-> self, tag |-> p.tag, req |-> NoReq]
        ELSE
        LET u == make_uri(self.baseurl, p.val, query)
            h == IF body = <<>> THEN NoHeaders
                 ELSE headers_set(
                        headers_set(NoHeaders, "content-length",
                                    to_decimal(Len(body[1]))),
                        "content-type", <<"application/json">>)
        IN  IF u.tag # "Ok" THEN [self |-> self, tag |-> u.tag, req |-> NoReq]
            ELSE [self |-> self, tag |-> "Ok",
                  req |-> [method |-> method, uri |-> u.uri,
                           headers |-> h, body |-> body]]

\* Faulty variant: the default headers first, the Basic-auth header over them.
run_request_send_auth_last(self, req) ==
    LET h1 == headers_extend(req.headers, self.headers)
        h2 == IF self.auth = <<>> THEN h1
              ELSE headers_set(h1, "authorization", basic_value(self.auth[1]))
    IN  [self |-> self, req |-> [req EXCEPT !.headers = h2]]

\* RestClient::run_request, up to the hand-over to the transport: set the
\* Basic-auth header if credentials are configured, then extend the
\* request's headers with the client's headers.
run_request_send(self, req) ==
    LET h1 == IF self.auth = <<>> THEN req.headers
              ELSE headers_set(req.headers, "authorization",
                               basic_value(self.auth[1]))
        h2 == headers_extend(h1, self.headers)
    IN  [self |-> self, req |-> [req EXCEPT !.headers = h2]]

\* make_request(..)? followed by run_request(req): the error of
\* make_request is returned before anything is sent.
request(self, method, params, query, body) ==
    LET m == make_request(self, method, params, query, body)
    IN  IF m.tag # "Ok" THEN [self |-> m.self, tag |-> m.tag, req |-> NoReq]
        ELSE LET r == run_request_send(m.self, m.req)
             IN  [self |-> r.self, tag |-> "Sent", req |-> r.req]

\* Faulty variant: a failed serialization is replaced by an empty body.
with_body_lenient(self, method, params, query, data) ==
    LET s == to_string(data)
    IN  request(self, method, params, query, <<s.val>>)

\* The start of post_or_put and its _with / _capture variants: serialize
\* the data, returning ParseError at once if that fails.
with_body(self, method, params, query, data) ==
    LET s == to_string(data)
    IN  IF s.tag # "Ok" THEN [self |-> self, tag |-> "ParseError", req |-> NoReq]
        ELSE request(self, method, params, query, <<s.val>>)

(***************************************************************************)
(* The response side of run_request.                                       *)
(***************************************************************************)
StatusCodes == {199, 200, 299, 300, 404}

\* A body chunk is a sequence of bytes; "xFF" is a byte that is not UTF-8.
Chunks == {<<"a">>, <<"xFF", "b">>}

\* Faulty variant: the success class taken one code too wide.
is_success_wide(s) == s >= 200 /\ s <= 300

\* StatusCode::is_success: the class 2xx.
is_success(s) == s >= 200 /\ s < 300

\* String::from_utf8_lossy(&chunk).to_string(): an invalid byte becomes
\* the replacement character.
RECURSIVE from_utf8_lossy(_)
from_utf8_lossy(chunk) ==
    IF chunk = <<>> THEN <<>>
    ELSE <<IF Head(chunk) = "xFF" THEN "uFFFD" ELSE Head(chunk)>>
           \o from_utf8_lossy(Tail(chunk))

\* res.body().map(lossy).collect().map(|vec| vec.into_iter().collect()):
\* the decoded chunks, concatenated in the order of arrival.
RECURSIVE collect_body(_)
collect_body(cs) ==
    IF cs = <<>> THEN <<>>
    ELSE from_utf8_lossy(Head(cs)) \o collect_body(Tail(cs))

\* Faulty variant: a failure of the body stream after a response head ends the
\* collection with what has arrived.
run_request_result_partial(how, st, cs) ==
    IF st = <<>> THEN Err("RequestError")
    ELSE IF ~is_success(st[1]) THEN HttpError(st[1], collect_body(cs))
    ELSE Ok(collect_body(cs))

\* The match on self.core.run(req) in run_request: Err(_) of the transport
\* is RequestError; a completed exchange is classified by its status.
run_request_result(how, st, cs) ==
    IF how = "failed" THEN Err("RequestError")
    ELSE IF ~is_success(st[1]) THEN HttpError(st[1], collect_body(cs))
    ELSE Ok(collect_body(cs))

\* The operations that decode the response body into a value.
DecodingOps == {"get", "get_with", "post_capture", "put_capture",
                "post_capture_with", "put_capture_with"}

\* What the operation returns once run_request has returned r: the error
\* of run_request as it is; otherwise the decoded body
\* (serde_json::from_str, ParseError if the body does not decode into the
\* caller's type) or unit.
finish(name, r, decodes) ==
    IF r.tag # "Ok" THEN r
    ELSE IF name \in DecodingOps
         THEN (IF decodes THEN Ok(r.body) ELSE Err("ParseError"))
         ELSE Ok(<<>>)

(***************************************************************************)
(* The state after RestClient::new(url): the base URL parsed, no           *)
(* credentials, no headers.                                                *)
(***************************************************************************)
HttpBase == [scheme |-> "http", host |-> <<"h">>, path |-> <<"/">>, query |-> <<>>]
DeepBase == [scheme |-> "http", host |-> <<"h">>, path |-> <<"/", "v", "/">>,
             query |-> << <<"k", "=", "v">> >>]
FileBase == [scheme |-> "file", host |-> <<>>, path |-> <<"/">>, query |-> <<>>]

BaseUrls == {HttpBase, DeepBase, FileBase}

\* The base URLs of the clients whose operations are explored.
ClientBases == {DeepBase, FileBase}

Credentials == {[username |-> "u1", password |-> "p1"],
                [username |-> "u2", password |-> "p2"]}

\* The (name, value) arguments of set_header_raw.
RawHeaders == {<<"authorization", <<"t">>>>, <<"x-a", <<"1">>>>, <<"x-a", <<"2">>>>}

\* The typed headers given to set_header, as name and formatted value.
TypedHeaders == {<<"content-type", <<"text/plain">>>>, <<"content-length", <<"0">>>>}

\* The query lists given to the _with operations.
Queries == {<<[key |-> <<"q">>, item |-> <<" ">>]>>}

NoCall == [op |-> "none", params |-> "", data |-> "", query |-> <<>>]

NoUin == [path |-> <<>>, params |-> <<>>]

Init ==
    /\ baseurl \in ClientBases
    /\ auth = <<>>
    /\ headers = NoHeaders
    /\ pc = "idle"
    /\ call = NoCall
    /\ wire = <<>>
    /\ exch = "none"
    /\ status = <<>>
    /\ chunks = <<>>
    /\ ran = <<>>
    /\ result = <<>>
    /\ lastAuth = <<>>
    /\ lastSet = NoHeaders
    /\ uin = NoUin
    /\ uout = <<>>

(***************************************************************************)
(* Configuration of the client.                                            *)
(***************************************************************************)
set_auth ==
    /\ pc = "idle"
    /\ \E c \in Credentials :
          /\ auth' = <<c>>
          /\ lastAuth' = <<c>>
    /\ UNCHANGED <<baseurl, headers, lastSet, callVars, uriVars>>

\* Faulty variant: a value already set for the name is kept.
set_raw_keep_first(h, name, value) ==
    IF name \in DOMAIN h THEN h ELSE headers_set(h, name, value)

\* self.headers.set_raw(name.to_owned(), value)
set_raw(h, name, value) == headers_set(h, name, value)

set_header_raw ==
    /\ pc = "idle"
    /\ \E nv \in RawHeaders :
          /\ headers' = set_raw(headers, nv[1], nv[2])
          /\ lastSet' = [n \in DOMAIN lastSet \cup {nv[1]} |->
                            IF n = nv[1] THEN nv[2] ELSE lastSet[n]]
    /\ UNCHANGED <<baseurl, auth, lastAuth, callVars, uriVars>>

set_header ==
    /\ pc = "idle"
    /\ \E nv \in TypedHeaders :
          /\ headers' = headers_set(headers, nv[1], nv[2])
          /\ lastSet' = [n \in DOMAIN lastSet \cup {nv[1]} |->
                            IF n = nv[1] THEN nv[2] ELSE lastSet[n]]
    /\ UNCHANGED <<baseurl, auth, lastAuth, callVars, uriVars>>

\* Faulty variant: the credentials are cleared with the headers.
cleared_all(self) == [self EXCEPT !.headers = NoHeaders, !.auth = <<>>]

\* self.headers.clear()
cleared(self) == [self EXCEPT !.headers = NoHeaders]

clear_headers ==
    /\ pc = "idle"
    /\ baseurl' = cleared(Self).baseurl
    /\ auth' = cleared(Self).auth
    /\ headers' = cleared(Self).headers
    /\ lastSet' = NoHeaders
    /\ UNCHANGED <<lastAuth, callVars, uriVars>>

(***************************************************************************)
(* The request operations.  Begin takes the outcome of the synchronous     *)
(* part of an operation: an error returned at once, or a request handed    *)
(* to the transport.                                                       *)
(***************************************************************************)
Begin(name, params, data, query, out) ==
    /\ pc = "idle"
    /\ baseurl' = out.self.baseurl
    /\ auth' = out.self.auth
    /\ headers' = out.self.headers
    /\ call' = [op |-> name, params |-> params, data |-> data, query |-> query]
    /\ status' = <<>>
    /\ chunks' = <<>>
    /\ ran' = <<>>
    /\ IF out.tag = "Sent"
       THEN /\ pc' = "inflight"
            /\ wire' = <<out.req>>
            /\ exch' = "sent"
            /\ result' = <<>>
       ELSE /\ pc' = "returned"
            /\ wire' = <<>>
            /\ exch' = "none"
            /\ result' = <<Err(out.tag)>>
    /\ UNCHANGED <<histVars, uriVars>>

get ==
    \E p \in Params :
        Begin("get", p, "", <<>>, request(Self, "GET", p, <<>>, <<>>))

get_with ==
    \E p \in Params, q \in Queries :
        Begin("get_with", p, "", <<q>>, request(Self, "GET", p, <<q>>, <<>>))

post ==
    \E p \in Params, d \in Data :
        Begin("post", p, d, <<>>, with_body(Self, "POST", p, <<>>, d))

put ==
    \E p \in Params, d \in Data :
        Begin("put", p, d, <<>>, with_body(Self, "PUT", p, <<>>, d))

post_with ==
    \E p \in Params, d \in Data, q \in Queries :
        Begin("post_with", p, d, <<q>>, with_body(Self, "POST", p, <<q>>, d))

put_with ==
    \E p \in Params, d \in Data, q \in Queries :
        Begin("put_with", p, d, <<q>>, with_body(Self, "PUT", p, <<q>>, d))

post_capture ==
    \E p \in Params, d \in Data :
        Begin("post_capture", p, d, <<>>, with_body(Self, "POST", p, <<>>, d))

put_capture ==
    \E p \in Params, d \in Data :
        Begin("put_capture", p, d, <<>>, with_body(Self, "PUT", p, <<>>, d))

post_capture_with ==
    \E p \in Params, d \in Data, q \in Queries :
        Begin("post_capture_with", p, d, <<q>>,
              with_body(Self, "POST", p, <<q>>, d))

put_capture_with ==
    \E p \in Params, d \in Data, q \in Queries :
        Begin("put_capture_with", p, d, <<q>>,
              with_body(Self, "PUT", p, <<q>>, d))

delete ==
    \E p \in Params :
        Begin("delete", p, "", <<>>, request(Self, "DELETE", p, <<>>, <<>>))

(***************************************************************************)
(* The exchange that self.core.run(req) drives: the response head, the     *)
(* body chunks, the end of the body; the transport may fail at any point.  *)
(***************************************************************************)
ResponseHead ==
    /\ pc = "inflight"
    /\ exch = "sent"
    /\ \E s \in StatusCodes : status' = <<s>>
    /\ exch' = "head"
    /\ UNCHANGED <<clientVars, histVars, uriVars, pc, call, wire, chunks, ran, result>>

BodyChunk ==
    /\ pc = "inflight"
    /\ exch = "head"
    /\ Len(chunks) < MaxChunks
    /\ \E c \in Chunks : chunks' = Append(chunks, c)
    /\ UNCHANGED <<clientVars, histVars, uriVars, pc, call, wire, exch, status, ran, result>>

\* The future resolves: run_request returns and the operation finishes.
Resolve(how) ==
    LET r == run_request_result(how, status, chunks)
    IN  /\ exch' = how
        /\ ran' = <<r>>
        /\ \E decodes \in BOOLEAN : result' = <<finish(call.op, r, decodes)>>
        /\ pc' = "returned"
        /\ UNCHANGED <<clientVars, histVars, uriVars, call, wire, status, chunks>>

BodyEnd ==
    /\ pc = "inflight"
    /\ exch = "head"
    /\ Resolve("complete")

TransportFailure ==
    /\ pc = "inflight"
    /\ exch \in {"sent", "head"}
    /\ Resolve("failed")

\* The caller goes on: the request and the response are dropped.
Return ==
    /\ pc = "returned"
    /\ pc' = "idle"
    /\ call' = NoCall
    /\ wire' = <<>>
    /\ exch' = "none"
    /\ status' = <<>>
    /\ chunks' = <<>>
    /\ ran' = <<>>
    /\ result' = <<>>
    /\ UNCHANGED <<clientVars, histVars, uriVars>>

Next ==
    \/ set_auth
    \/ set_header_raw
    \/ set_header
    \/ clear_headers
    \/ get
    \/ get_with
    \/ post
    \/ put
    \/ post_with
    \/ put_with
    \/ post_capture
    \/ put_capture
    \/ post_capture_with
    \/ put_capture_with
    \/ delete
    \/ ResponseHead
    \/ BodyChunk
    \/ BodyEnd
    \/ TransportFailure
    \/ Return

Spec == Init /\ [][Next]_vars

(***************************************************************************)
(* make_uri on its own: a client with any of the base URLs, a resolved     *)
(* path and an optional query list drawn from bounded sets.                *)
(***************************************************************************)
PathChars == {"/", "a", " "}
Keys == {<<"a">>, <<"b">>}
Items == {<<"1">>, <<"2", " ", "c">>, <<"&", "=">>}
Pairs == {[key |-> k, item |-> i] : k \in Keys, i \in Items}

InitUri ==
    /\ baseurl \in BaseUrls
    /\ auth = <<>>
    /\ headers = NoHeaders
    /\ pc = "idle"
    /\ call = NoCall
    /\ wire = <<>>
    /\ exch = "none"
    /\ status = <<>>
    /\ chunks = <<>>
    /\ ran = <<>>
    /\ result = <<>>
    /\ lastAuth = <<>>
    /\ lastSet = NoHeaders
    /\ \E path \in SeqsUpTo(PathChars, MaxPathLen) :
       \E params \in {<<>>} \cup {<<q>> : q \in SeqsUpTo(Pairs, MaxQuery)} :
          uin = [path |-> path, params |-> params]
    /\ uout = <<>>

MakeUri ==
    /\ uout = <<>>
    /\ uout' = <<make_uri(baseurl, uin.path, uin.params)>>
    /\ UNCHANGED <<clientVars, callVars, histVars, uin>>

NextUri == MakeUri

SpecUri == InitUri /\ [][NextUri]_vars

(***************************************************************************)
(* Properties.  Helper definitions used to state them.                     *)
(***************************************************************************)
Sent == wire # <<>>
SentHeaders == wire[1].headers
BodyOps == {"post", "put", "post_with", "put_with", "post_capture",
            "put_capture", "post_capture_with", "put_capture_with"}

\* The pieces of s between the occurrences of the separator c (no piece
\* for the empty string).
RECURSIVE Split(_, _)
Split(s, c) ==
    IF s = <<>> THEN <<>>
    ELSE LET i == FindFrom(s, {c}, 1)
         IN  IF i = 0 THEN <<s>>
             ELSE <<SubSeq(s, 1, i - 1)>> \o
                  (IF i = Len(s) THEN << <<>> >> ELSE Split(SubSeq(s, i + 1, Len(s)), c))

\* The character a %XX escape stands for.
Unescaped(hi, lo) ==
    CASE hi = "2" /\ lo = "0" -> " "
      [] hi = "2" /\ lo = "6" -> "&"
      [] hi = "3" /\ lo = "D" -> "="
      [] hi = "2" /\ lo = "B" -> "+"
      [] hi = "2" /\ lo = "5" -> "%"
      [] OTHER -> "?"

\* Percent-decoding: %XX becomes its character, everything else stays.
RECURSIVE PercentDecode(_)
PercentDecode(s) ==
    IF s = <<>> THEN <<>>
    ELSE IF Head(s) = "%" /\ Len(s) >= 3
         THEN <<Unescaped(s[2], s[3])>> \o PercentDecode(SubSeq(s, 4, Len(s)))
         ELSE <<Head(s)>> \o PercentDecode(Tail(s))

\* Decoding of application/x-www-form-urlencoded: "+" is a space, then
\* percent-decoding.
FormDecode(s) ==
    PercentDecode([i \in 1..Len(s) |-> IF s[i] = "+" THEN " " ELSE s[i]])

\* The key and the value of an emitted pair: what precedes and what
\* follows its first "=".
KeyOf(pair) ==
    LET i == FindFrom(pair, {"="}, 1)
    IN  IF i = 0 THEN pair ELSE SubSeq(pair, 1, i - 1)
ValueOf(pair) ==
    LET i == FindFrom(pair, {"="}, 1)
    IN  IF i = 0 THEN <<>> ELSE SubSeq(pair, i + 1, Len(pair))

OptString(o) == IF o = <<>> THEN <<>> ELSE o[1]

UriBuilt == uout # <<>> /\ uout[1].tag = "Ok"
BuiltUri == uout[1].uri

\* The query list [("a","1"),("b","2 c")].
ExampleQuery == <<[key |-> <<"a">>, item |-> <<"1">>],
                  [key |-> <<"b">>, item |-> <<"2", " ", "c">>]>>

(***************************************************************************)
(* C1: when the exchange completes with status s and collected body b,     *)
(* run_request returns Ok(b) exactly when 200 <= s <= 299 and              *)
(* HttpError(s, b) otherwise.                                              *)
(***************************************************************************)
C1_StatusClassification ==
    (pc = "returned" /\ exch = "complete") =>
        LET s == status[1]
            b == collect_body(chunks)
        IN  ran = <<IF s \in 200..299 THEN Ok(b) ELSE HttpError(s, b)>>

\* A 404 with a body has been returned as HttpError(404, body).
C1_Witness ==
    /\ pc = "returned"
    /\ exch = "complete"
    /\ status = <<404>>
    /\ chunks = << <<"a">> >>
    /\ ran = <<HttpError(404, <<"a">>)>>
    /\ result = <<HttpError(404, <<"a">>)>>

(***************************************************************************)
(* C2: if get_path returns an error or the serialization of the body       *)
(* fails, the operation returns that error and nothing is handed to the    *)
(* transport during the call.                                              *)
(***************************************************************************)
C2_NoSendOnEarlyError ==
    LET serFails == call.op \in BodyOps /\ to_string(call.data).tag # "Ok"
        pathFails == get_path(call.params).tag # "Ok"
    IN  (pc # "idle" /\ (serFails \/ pathFails)) =>
            /\ pc = "returned"
            /\ wire = <<>>
            /\ exch = "none"
            /\ ran = <<>>
            /\ result = <<Err(IF serFails THEN "ParseError"
                               ELSE get_path(call.params).tag)>>

\* put_capture with serializable data and a failing path has returned the
\* error of get_path without a request.
C2_Witness ==
    /\ pc = "returned"
    /\ call.op = "put_capture"
    /\ call.params = "bad"
    /\ call.data = "obj"
    /\ wire = <<>>
    /\ result = <<Err("HttpClientError")>>

(***************************************************************************)
(* C3 as claimed: whenever auth is set, the Authorization header of the    *)
(* sent request is the one derived from the credentials, whatever the      *)
(* default headers are.                                                    *)
(***************************************************************************)
C3_AuthOverlaysDefaults ==
    (Sent /\ auth # <<>>) =>
        /\ "authorization" \in DOMAIN SentHeaders
        /\ SentHeaders["authorization"] = basic_value(auth[1])

(***************************************************************************)
(* C3 amended: the Basic-auth header is set first and the default headers  *)
(* are laid over it: whenever auth is set, the Authorization header of the *)
(* sent request is the default header named Authorization if there is      *)
(* one, and otherwise the one derived from the credentials.                *)
(***************************************************************************)
C3_DefaultsOverlayAuth ==
    (Sent /\ auth # <<>>) =>
        /\ "authorization" \in DOMAIN SentHeaders
        /\ SentHeaders["authorization"] =
              IF "authorization" \in DOMAIN headers
              THEN headers["authorization"]
              ELSE basic_value(auth[1])

\* A request has been sent with credentials configured and a default
\* Authorization header, and carries the latter.
C3_Witness ==
    /\ Sent
    /\ auth # <<>>
    /\ "authorization" \in DOMAIN headers
    /\ SentHeaders["authorization"] = <<"t">>

(***************************************************************************)
(* C4 as claimed: every request sent with a body carries Content-Length    *)
(* equal to the byte length of the body and Content-Type                   *)
(* application/json, whatever default headers and auth are set.            *)
(***************************************************************************)
C4_ContentHeadersAlways ==
    (Sent /\ wire[1].body # <<>>) =>
        /\ {"content-length", "content-type"} \subseteq DOMAIN SentHeaders
        /\ SentHeaders["content-length"] = to_decimal(Len(wire[1].body[1]))
        /\ SentHeaders["content-type"] = <<"application/json">>

(***************************************************************************)
(* C4 amended: every request sent with a body carries a Content-Length     *)
(* and a Content-Type header; each is the default header of that name if   *)
(* the client has one, and otherwise the byte length of the body,          *)
(* respectively application/json.                                          *)
(***************************************************************************)
C4_ContentHeadersUnlessDefault ==
    (Sent /\ wire[1].body # <<>>) =>
        /\ {"content-length", "content-type"} \subseteq DOMAIN SentHeaders
        /\ SentHeaders["content-length"] =
              IF "content-length" \in DOMAIN headers
              THEN headers["content-length"]
              ELSE to_decimal(Len(wire[1].body[1]))
        /\ SentHeaders["content-type"] =
              IF "content-type" \in DOMAIN headers
              THEN headers["content-type"]
              ELSE <<"application/json">>

\* A two-byte body has been sent by a client with credentials and a
\* default header, with Content-Length 2 and Content-Type application/json.
C4_Witness ==
    /\ Sent
    /\ wire[1].body = << <<"{", "}">> >>
    /\ auth # <<>>
    /\ DOMAIN headers = {"x-a"}
    /\ SentHeaders["content-length"] = <<"2">>
    /\ SentHeaders["content-type"] = <<"application/json">>

(***************************************************************************)
(* C5 as claimed: after set_auth, every request sent carries the           *)
(* Basic-auth header of the most recently set credentials, whatever        *)
(* set_header, set_header_raw, clear_headers and request operations came   *)
(* in between.                                                             *)
(***************************************************************************)
C5_LatestCredentialsAlwaysSent ==
    (Sent /\ lastAuth # <<>>) =>
        /\ "authorization" \in DOMAIN SentHeaders
        /\ SentHeaders["authorization"] = basic_value(lastAuth[1])

(***************************************************************************)
(* C5 amended: after set_auth the client holds the most recently set       *)
(* credentials, whatever set_header, set_header_raw, clear_headers and     *)
(* request operations came in between, and every request sent while no     *)
(* default header named Authorization is set carries the Basic-auth        *)
(* header of those credentials.                                            *)
(***************************************************************************)
C5_LatestCredentialsKept ==
    /\ auth = lastAuth
    /\ (Sent /\ lastAuth # <<>> /\ "authorization" \notin DOMAIN headers) =>
          /\ "authorization" \in DOMAIN SentHeaders
          /\ SentHeaders["authorization"] = basic_value(lastAuth[1])

\* A request has been sent by a client without default headers whose
\* latest credentials are the second pair, and carries them.
C5_Witness ==
    /\ Sent
    /\ lastAuth = <<[username |-> "u2", password |-> "p2"]>>
    /\ headers = NoHeaders
    /\ SentHeaders["authorization"] = <<"Basic", "u2", "p2">>

(***************************************************************************)
(* C6: a header set with set_header or set_header_raw is carried by every  *)
(* later request with the latest value set for its name, until             *)
(* clear_headers; after clear_headers a request carries no header set      *)
(* before it: every header of a sent request is one set since the last     *)
(* clear, the Basic-auth header or a content header of the body.           *)
(***************************************************************************)
C6_DefaultHeadersSent ==
    Sent =>
        /\ \A n \in DOMAIN lastSet :
              n \in DOMAIN SentHeaders /\ SentHeaders[n] = lastSet[n]
        /\ \A n \in DOMAIN SentHeaders \ DOMAIN lastSet :
              \/ n = "authorization" /\ auth # <<>>
                   /\ SentHeaders[n] = basic_value(auth[1])
              \/ n = "content-type" /\ wire[1].body # <<>>
                   /\ SentHeaders[n] = <<"application/json">>
              \/ n = "content-length" /\ wire[1].body # <<>>
                   /\ SentHeaders[n] = to_decimal(Len(wire[1].body[1]))

\* A request has been sent carrying the second value set for x-a and the
\* raw Authorization header.
C6_Witness ==
    /\ Sent
    /\ DOMAIN lastSet = {"x-a", "authorization"}
    /\ lastSet["x-a"] = <<"2">>
    /\ SentHeaders["x-a"] = <<"2">>
    /\ SentHeaders["authorization"] = <<"t">>

(***************************************************************************)
(* C7: no step of a request operation, whether it ends in success or in    *)
(* an error, changes the client's base URL, credentials or default         *)
(* headers; the base URL is never changed by any operation.                *)
(***************************************************************************)
C7_ClientUnchangedByRequests ==
    [][/\ baseurl' = baseurl
       /\ (pc # "idle" \/ pc' # "idle") => (auth' = auth /\ headers' = headers)]_vars

\* An operation has returned HttpError on a client with credentials and
\* default headers.
C7_Witness ==
    /\ pc = "returned"
    /\ result # <<>>
    /\ result[1].tag = "HttpError"
    /\ auth # <<>>
    /\ DOMAIN headers # {}

\* A resolved path made absolute and escaped: "/" is put in front unless
\* the path starts with one, and every space is written %20.
AbsoluteEscaped(P) ==
    LET abs == IF P # <<>> /\ P[1] = "/" THEN P ELSE <<"/">> \o P
    IN  Flatten([i \in 1..Len(abs) |->
                    IF abs[i] = " " THEN <<"%", "2", "0">> ELSE <<abs[i]>>])

C9_PairsPercentDecode ==
    (UriBuilt /\ uin.params # <<>>) =>
        LET Q == uin.params[1]
            kept == Split(OptString(baseurl.query), "&")
            pairs == Split(OptString(BuiltUri.query), "&")
        IN  /\ Len(pairs) = Len(kept) + Len(Q)
            /\ \A i \in 1..Len(Q) :
                  /\ PercentDecode(KeyOf(pairs[Len(kept) + i])) = Q[i].key
                  /\ PercentDecode(ValueOf(pairs[Len(kept) + i])) = Q[i].item
            /\ (Q = ExampleQuery /\ baseurl.query = <<>>) =>
                  BuiltUri.query =
                    << <<"a", "=", "1", "&", "b", "=", "2", "%", "2", "0", "c">> >>

(***************************************************************************)
(* C9 amended: the query string of the constructed URI is the query of     *)
(* the base URI, if it has one, followed by one key=value pair per         *)
(* element of the query list, in its order, duplicate keys included; each  *)
(* pair decodes as application/x-www-form-urlencoded ("+" is a space,      *)
(* then percent-decoding) to the original key and value, so that           *)
(* [("a","1"),("b","2 c")] on a base URI without query gives a=1&b=2+c.    *)
(***************************************************************************)
C9_PairsFormDecode ==
    (UriBuilt /\ uin.params # <<>>) =>
        LET Q == uin.params[1]
            kept == Split(OptString(baseurl.query), "&")
            pairs == Split(OptString(BuiltUri.query), "&")
        IN  /\ Len(pairs) = Len(kept) + Len(Q)
            /\ SubSeq(pairs, 1, Len(kept)) = kept
            /\ \A i \in 1..Len(Q) :
                  /\ FormDecode(KeyOf(pairs[Len(kept) + i])) = Q[i].key
                  /\ FormDecode(ValueOf(pairs[Len(kept) + i])) = Q[i].item
            /\ (Q = ExampleQuery /\ baseurl.query = <<>>) =>
                  BuiltUri.query =
                    << <<"a", "=", "1", "&", "b", "=", "2", "+", "c">> >>

\* The URI of the example has been built: its query string is a=1&b=2+c.
C9_Witness ==
    /\ UriBuilt
    /\ baseurl = HttpBase
    /\ uin.params = <<ExampleQuery>>
    /\ BuiltUri.query = << <<"a", "=", "1", "&", "b", "=", "2", "+", "c">> >>

(***************************************************************************)
(* C10: nothing is returned while the exchange is in progress; a success   *)
(* or an HttpError is returned only for an exchange whose status and whole *)
(* body have arrived, with the chunks concatenated in the order of         *)
(* arrival; an exchange in which the transport failed, before or after     *)
(* the status, returns RequestError.                                       *)
(***************************************************************************)
C10_WholeResponseOrRequestError ==
    /\ pc = "inflight" => (ran = <<>> /\ result = <<>>)
    /\ (pc = "returned" /\ Sent) =>
          /\ ran # <<>> /\ result # <<>>
          /\ (ran[1].tag \in {"Ok", "HttpError"} \/ result[1].tag \in {"Ok", "HttpError"}) =>
                /\ exch = "complete"
                /\ status # <<>>
                /\ ran[1].body =
                      Flatten([i \in 1..Len(chunks) |-> from_utf8_lossy(chunks[i])])
          /\ exch = "failed" =>
                (ran = <<Err("RequestError")>> /\ result = <<Err("RequestError")>>)

\* The transport has failed after a 200 status and one chunk: the call
\* has returned RequestError.
C10_Witness ==
    /\ pc = "returned"
    /\ exch = "failed"
    /\ status = <<200>>
    /\ Len(chunks) = 1
    /\ result = <<Err("RequestError")>>

=============================================================================
